---- MODULE Spec2Model ----
(***************************************************************************)
(* Real-time chat relay of the caregivers platform (backend SocketService  *)
(* on top of Socket.IO) and the server process that hosts it.              *)
(*                                                                         *)
(* The relay keeps two JavaScript Maps, connectedUsers and                 *)
(* connectedProfessionals, both keyed by socket id and holding the user id *)
(* asserted by the login event.  A JavaScript Map iterates in insertion    *)
(* order, so each Map is a sequence of <<socketId, userId>> entries.       *)
(***************************************************************************)
EXTENDS Naturals, Sequences, FiniteSets

(***************************************************************************)
(* Bounds of the model.                                                    *)
(***************************************************************************)
\* number of transport connections (socket ids) the model lets the clients open
NumConns == 2

Conns == 1..NumConns

(***************************************************************************)
(* JavaScript values.  A value is <<typeof, printed form>>; the strict     *)
(* equality (===) of the code is equality of both components, so that the  *)
(* number 1 and the string "1" are different values.                       *)
(***************************************************************************)
Num(s) == <<"number", s>>
Str(s) == <<"string", s>>
Undefined == <<"undefined", "undefined">>

\* findSocketIdByUserId returns null when no entry matches; socket ids are 1..NumConns
Null == 0

\* the user ids that login events and message recipients carry
IdValues == {Num("1"), Str("1")}

\* the `type` field of a login event; "other" is any value the code does not test for
LoginTypes == {"user", "professional", "other"}

\* an event emitted with no payload: the handler's `data` parameter is undefined
NoData == [undefined |-> TRUE]

LoginData == [type : LoginTypes, userId : IdValues]

\* what a sender puts in a message: <<its id, its display name, the text or the data>>
Senders ==
    { <<Num("1"), Str("Ana"), Str("Hello")>>,
      <<Str("7"), Str("Bia"), Str("Oi")>> }

\* payload of send_message
UserMessageData ==
    { [fromUserId |-> s[1], toProfessionalId |-> to, message |-> s[3], fromUserName |-> s[2]] :
        s \in Senders, to \in IdValues }

\* payload of send_professional_message
ProfessionalMessageData ==
    { [fromProfessionalId |-> s[1], toUserId |-> to, message |-> s[3],
       fromProfessionalName |-> s[2]] : s \in Senders, to \in IdValues }

\* payload of send_professional_data
ProfessionalDataData ==
    { [fromProfessionalId |-> s[1], toUserId |-> to, dados |-> s[3],
       fromProfessionalName |-> s[2]] : s \in Senders, to \in IdValues }

VARIABLES
    status,                 \* per socket id: "new" (not yet connected), "open", "closed"
    connectedUsers,         \* Map socket id -> user id, in insertion order
    connectedProfessionals, \* Map socket id -> professional id, in insertion order
    emitted,                \* the io.to(id).emit(...) calls made by the handler that ran last
    console,                \* the console.log / console.error lines of the handler that ran last
    process                 \* "running", "closing" (server.close() called), "exited"

\* the browser side: one SocketService instance of a page
VARIABLES
    socket,                 \* this.socket: the id of the socket object the service holds
    isConnected,            \* this.isConnected
    reconnectAttempts,      \* this.reconnectAttempts
    eventListeners,         \* the keys of this.eventListeners
    ioSockets,              \* per socket object created by io(): state, listeners, sendBuffer
    timers,                 \* the pending setTimeout callbacks of handleConnectionError
    wire,                   \* the <<socket, event>> packets sent to the server in the last step
    called,                 \* the events whose registered callback ran in the last step
    browserConsole          \* the first console line of the service method that ran last

\* the browser side: one StorageService instance over window.localStorage
VARIABLES
    storage,                \* localStorage: full key -> stored item, or NoItem
    now,                    \* Date.now(), in milliseconds
    returned                \* what the StorageService method called last returned

relayVars == <<status, connectedUsers, connectedProfessionals, emitted, console, process>>

clientVars == <<socket, isConnected, reconnectAttempts, eventListeners, ioSockets,
                timers, wire, called, browserConsole>>

storageVars == <<storage, now, returned>>

vars == <<relayVars, clientVars, storageVars>>

(***************************************************************************)
(* JavaScript Map, as the sequence of its entries in insertion order.      *)
(***************************************************************************)
MapHas(m, k) == \E i \in 1..Len(m) : m[i][1] = k

MapGet(m, k) ==
    IF MapHas(m, k)
    THEN m[CHOOSE i \in 1..Len(m) : m[i][1] = k][2]
    ELSE Undefined

\* Map.set that adds an entry without looking for the key: a list push
MapSetPush(m, k, v) == Append(m, <<k, v>>)

\* Map.prototype.set: an existing key keeps its position, a new key goes last
MapSet(m, k, v) ==
    IF MapHas(m, k)
    THEN [i \in 1..Len(m) |-> IF m[i][1] = k THEN <<k, v>> ELSE m[i]]
    ELSE Append(m, <<k, v>>)

MapDelete(m, k) == SelectSeq(m, LAMBDA e : e[1] # k)

\* a value interpolated in a template string: its printed form, which is the
\* same for the number 1 and the string "1".  A value passed to console.log as
\* an argument of its own is kept as it is.
ToText(v) == v[2]

\* findSocketIdByUserId comparing with == (loose equality): the number 1 and
\* the string "1" are taken for the same identity
findSocketIdByUserIdLoose(userMap, userId) ==
    IF \E i \in 1..Len(userMap) : ToText(userMap[i][2]) = ToText(userId)
    THEN LET first == CHOOSE i \in 1..Len(userMap) :
                         /\ ToText(userMap[i][2]) = ToText(userId)
                         /\ \A j \in 1..(i - 1) : ToText(userMap[j][2]) # ToText(userId)
         IN  userMap[first][1]
    ELSE Null

(***************************************************************************)
(* findSocketIdByUserId: the first entry, in iteration order, whose value  *)
(* is strictly equal to userId.                                            *)
(***************************************************************************)
findSocketIdByUserId(userMap, userId) ==
    IF \E i \in 1..Len(userMap) : userMap[i][2] = userId
    THEN LET first == CHOOSE i \in 1..Len(userMap) :
                         /\ userMap[i][2] = userId
                         /\ \A j \in 1..(i - 1) : userMap[j][2] # userId
         IN  userMap[first][1]
    ELSE Null

(***************************************************************************)
(* The browser side: bounds and values.                                    *)
(***************************************************************************)
\* the socket objects one page creates with io() in the model
MaxSockets == 3

SocketIds == 1..MaxSockets

\* this.maxReconnectAttempts
maxReconnectAttempts == 5

\* the events the page registers a callback for with SocketService.on
ListenEvents == {"receive_message"}

\* a socket object io() has not created yet
NoSocket == [state |-> "none", listeners |-> {}, sendBuffer |-> <<>>]

\* the socket object io() returns: it connects by itself, nothing is
\* registered on it but the five handlers of setupEventHandlers
NewSocket == [state |-> "connecting", listeners |-> {}, sendBuffer |-> <<>>]

\* the keys the page stores, without the prefix
Keys == {"user", "professional"}

\* the values the page stores
Values == {"Ana", "Bia"}

\* the clock advances of the model
MaxTicks == 4

\* the milliseconds of one clock advance
TickMs == 500

\* the largest ttl, in seconds, given to set; 0 stands for every falsy ttl
\* (0, and the default null)
MaxTtl == 2

\* getItem of a key that is not stored: null
NoItem == <<>>

\* StorageService.getFullKey
getFullKey(key) == <<"sistema_cuidadores_", key>>

FullKeys == {getFullKey(key) : key \in Keys}

\* what a method returns when it returns nothing (undefined)
NoReturn == <<"undefined">>

\* the state after the server started and the page constructed its services:
\* the constructor of SocketService ran initializeSocket once
Init ==
    /\ status = [c \in Conns |-> "new"]
    /\ connectedUsers = <<>>
    /\ connectedProfessionals = <<>>
    /\ emitted = <<>>
    /\ console = <<>>
    /\ process = "running"
    /\ socket = 1
    /\ isConnected = FALSE
    /\ reconnectAttempts = 0
    /\ eventListeners = {}
    /\ ioSockets = [s \in SocketIds |-> IF s = 1 THEN NewSocket ELSE NoSocket]
    /\ timers = 0
    /\ wire = <<>>
    /\ called = {}
    /\ browserConsole = << <<"Socket.IO inicializado">> >>
    /\ storage = [k \in FullKeys |-> NoItem]
    /\ now = 0
    /\ returned = NoReturn

\* an event of socket c is dispatched to its handler while the socket is connected
Dispatch(c) == status[c] = "open" /\ process # "exited"

\* destructuring `const { ... } = data` of an undefined data throws a TypeError;
\* nothing catches it, so the process-level uncaughtException handler runs
\* gracefulShutdown, which calls server.close(): no new connection is accepted
UncaughtException ==
    /\ emitted' = <<>>
    /\ process' = (IF process = "running" THEN "closing" ELSE process)
    /\ console' = << <<"Excecao nao capturada:", "TypeError">>,
                     <<"Iniciando graceful shutdown...">> >>
    /\ UNCHANGED <<status, connectedUsers, connectedProfessionals>>

\* io.on('connection'): the socket gets its handlers; the registry is not touched
Connection(c) ==
    /\ process = "running"
    /\ UNCHANGED <<clientVars, storageVars>>
    /\ status[c] = "new"
    /\ emitted' = <<>>
    /\ status' = [status EXCEPT ![c] = "open"]
    /\ console' = << <<"Usuario conectado:", c>> >>
    /\ UNCHANGED <<connectedUsers, connectedProfessionals, process>>

\* handleLogin that also flushes a message kept for the identity to the socket
\* that logs in (an offline queue the relay does not have)
handleLoginFlush(c, data) ==
    /\ Dispatch(c)
    /\ UNCHANGED <<clientVars, storageVars>>
    /\ IF data = NoData
       THEN UncaughtException
       ELSE /\ IF data.type = "user"
               THEN /\ connectedUsers' = MapSet(connectedUsers, c, data.userId)
                    /\ UNCHANGED connectedProfessionals
               ELSE IF data.type = "professional"
               THEN /\ connectedProfessionals' =
                         MapSet(connectedProfessionals, c, data.userId)
                    /\ UNCHANGED connectedUsers
               ELSE UNCHANGED <<connectedUsers, connectedProfessionals>>
            /\ console' = << <<"Login:", c>> >>
            /\ emitted' = << [to |-> c, event |-> "receive_message",
                              payload |-> [fromUserId |-> Num("1"),
                                           fromUserName |-> Str("Ana"),
                                           message |-> Str("Hello"),
                                           type |-> "user"]] >>
            /\ UNCHANGED <<status, process>>

\* handleLogin over one pool of identities: a login as user takes the identity
\* away from the professionals and a login as professional from the users
handleLoginOnePool(c, data) ==
    /\ Dispatch(c)
    /\ UNCHANGED <<clientVars, storageVars>>
    /\ IF data = NoData
       THEN UncaughtException
       ELSE /\ emitted' = <<>>
            /\ IF data.type = "user"
               THEN /\ connectedUsers' = MapSet(connectedUsers, c, data.userId)
                    /\ connectedProfessionals' =
                         SelectSeq(connectedProfessionals, LAMBDA e : e[2] # data.userId)
                    /\ console' = << <<"Usuario conectado: com socket id:",
                                       ToText(data.userId), c>> >>
               ELSE IF data.type = "professional"
               THEN /\ connectedProfessionals' =
                         MapSet(connectedProfessionals, c, data.userId)
                    /\ connectedUsers' =
                         SelectSeq(connectedUsers, LAMBDA e : e[2] # data.userId)
                    /\ console' = << <<"Profissional conectado: com socket id:",
                                       ToText(data.userId), c>> >>
               ELSE /\ console' = <<>>
                    /\ UNCHANGED <<connectedUsers, connectedProfessionals>>
            /\ UNCHANGED <<status, process>>

\* handleLogin with last-write-wins: the entries other sockets hold for the
\* identity are deleted when a socket logs in as it
handleLoginSupersede(c, data) ==
    /\ Dispatch(c)
    /\ UNCHANGED <<clientVars, storageVars>>
    /\ IF data = NoData
       THEN UncaughtException
       ELSE /\ emitted' = <<>>
            /\ IF data.type = "user"
               THEN /\ connectedUsers' =
                         MapSet(SelectSeq(connectedUsers,
                                          LAMBDA e : e[1] = c \/ e[2] # data.userId),
                                c, data.userId)
                    /\ console' = << <<"Usuario conectado: com socket id:",
                                       ToText(data.userId), c>> >>
                    /\ UNCHANGED connectedProfessionals
               ELSE IF data.type = "professional"
               THEN /\ connectedProfessionals' =
                         MapSet(SelectSeq(connectedProfessionals,
                                          LAMBDA e : e[1] = c \/ e[2] # data.userId),
                                c, data.userId)
                    /\ console' = << <<"Profissional conectado: com socket id:",
                                       ToText(data.userId), c>> >>
                    /\ UNCHANGED connectedUsers
               ELSE /\ console' = <<>>
                    /\ UNCHANGED <<connectedUsers, connectedProfessionals>>
            /\ UNCHANGED <<status, process>>

handleLogin(c, data) ==
    /\ Dispatch(c)
    /\ UNCHANGED <<clientVars, storageVars>>
    /\ IF data = NoData
       THEN UncaughtException
       ELSE /\ emitted' = <<>>
            /\ IF data.type = "user"
               THEN /\ connectedUsers' = MapSet(connectedUsers, c, data.userId)
                    /\ console' = << <<"Usuario conectado: com socket id:",
                                       ToText(data.userId), c>> >>
                    /\ UNCHANGED connectedProfessionals
               ELSE IF data.type = "professional"
               THEN /\ connectedProfessionals' =
                         MapSet(connectedProfessionals, c, data.userId)
                    /\ console' = << <<"Profissional conectado: com socket id:",
                                       ToText(data.userId), c>> >>
                    /\ UNCHANGED connectedUsers
               ELSE /\ console' = <<>>
                    /\ UNCHANGED <<connectedUsers, connectedProfessionals>>
            /\ UNCHANGED <<status, process>>

\* Route without the `if (socketId)` test: emits whatever the lookup returned
RouteUnguarded(socketId, event, payload) ==
    << [to |-> socketId, event |-> event, payload |-> payload] >>

\* the transport calls of one routing: io.to(socketId).emit(event, payload) when
\* the lookup found a socket id, nothing otherwise
Route(socketId, event, payload) ==
    IF socketId # Null
    THEN << [to |-> socketId, event |-> event, payload |-> payload] >>
    ELSE <<>>

\* the second log line of a routing: sent, or recipient not connected
RouteLog(socketId, sent, notConnected, toId) ==
    IF socketId # Null
    THEN <<sent, ToText(toId)>>
    ELSE <<notConnected, ToText(toId)>>

\* handleUserMessage building the payload with the name and the text exchanged
handleUserMessageSwapped(c, data) ==
    /\ Dispatch(c)
    /\ UNCHANGED <<clientVars, storageVars>>
    /\ IF data = NoData
       THEN UncaughtException
       ELSE LET professionalSocketId ==
                    findSocketIdByUserId(connectedProfessionals, data.toProfessionalId)
            IN  /\ emitted' =
                     Route(professionalSocketId, "receive_message",
                           [fromUserId |-> data.fromUserId,
                            fromUserName |-> data.message,
                            message |-> data.fromUserName,
                            type |-> "user"])
                /\ console' =
                     << <<"Enviando mensagem de usuario para profissional",
                          ToText(data.fromUserId), ToText(data.toProfessionalId),
                          ToText(data.message)>>,
                        RouteLog(professionalSocketId, "Mensagem enviada ao profissional:",
                                 "Profissional nao esta conectado", data.toProfessionalId) >>
                /\ UNCHANGED <<status, connectedUsers, connectedProfessionals, process>>

\* handleUserMessage that routes only when the sending socket is logged in as
\* the user it names as the sender
handleUserMessageAuthenticated(c, data) ==
    /\ Dispatch(c)
    /\ UNCHANGED <<clientVars, storageVars>>
    /\ IF data = NoData
       THEN UncaughtException
       ELSE LET professionalSocketId ==
                    IF MapHas(connectedUsers, c)
                         /\ MapGet(connectedUsers, c) = data.fromUserId
                    THEN findSocketIdByUserId(connectedProfessionals,
                                              data.toProfessionalId)
                    ELSE Null
            IN  /\ emitted' =
                     Route(professionalSocketId, "receive_message",
                           [fromUserId |-> data.fromUserId,
                            fromUserName |-> data.fromUserName,
                            message |-> data.message,
                            type |-> "user"])
                /\ console' =
                     << <<"Enviando mensagem de usuario para profissional",
                          ToText(data.fromUserId), ToText(data.toProfessionalId),
                          ToText(data.message)>>,
                        RouteLog(professionalSocketId, "Mensagem enviada ao profissional:",
                                 "Profissional nao esta conectado", data.toProfessionalId) >>
                /\ UNCHANGED <<status, connectedUsers, connectedProfessionals, process>>

handleUserMessage(c, data) ==
    /\ Dispatch(c)
    /\ UNCHANGED <<clientVars, storageVars>>
    /\ IF data = NoData
       THEN UncaughtException
       ELSE LET professionalSocketId ==
                    findSocketIdByUserId(connectedProfessionals, data.toProfessionalId)
            IN  /\ emitted' =
                     Route(professionalSocketId, "receive_message",
                           [fromUserId |-> data.fromUserId,
                            fromUserName |-> data.fromUserName,
                            message |-> data.message,
                            type |-> "user"])
                /\ console' =
                     << <<"Enviando mensagem de usuario para profissional",
                          ToText(data.fromUserId), ToText(data.toProfessionalId),
                          ToText(data.message)>>,
                        RouteLog(professionalSocketId, "Mensagem enviada ao profissional:",
                                 "Profissional nao esta conectado", data.toProfessionalId) >>
                /\ UNCHANGED <<status, connectedUsers, connectedProfessionals, process>>

\* handleProfessionalMessage that also records its sender as a professional
handleProfessionalMessageRegisters(c, data) ==
    /\ Dispatch(c)
    /\ UNCHANGED <<clientVars, storageVars>>
    /\ IF data = NoData
       THEN UncaughtException
       ELSE LET userSocketId == findSocketIdByUserId(connectedUsers, data.toUserId)
            IN  /\ emitted' =
                     Route(userSocketId, "receive_message",
                           [fromProfessionalId |-> data.fromProfessionalId,
                            fromProfessionalName |-> data.fromProfessionalName,
                            message |-> data.message,
                            type |-> "professional"])
                /\ console' =
                     << <<"Enviando mensagem de profissional para usuario",
                          ToText(data.fromProfessionalId), ToText(data.toUserId),
                          ToText(data.message)>>,
                        RouteLog(userSocketId, "Mensagem enviada ao usuario:",
                                 "Usuario nao esta conectado", data.toUserId) >>
                /\ connectedProfessionals' =
                     MapSet(connectedProfessionals, c, data.fromProfessionalId)
                /\ UNCHANGED <<status, connectedUsers, process>>

handleProfessionalMessage(c, data) ==
    /\ Dispatch(c)
    /\ UNCHANGED <<clientVars, storageVars>>
    /\ IF data = NoData
       THEN UncaughtException
       ELSE LET userSocketId == findSocketIdByUserId(connectedUsers, data.toUserId)
            IN  /\ emitted' =
                     Route(userSocketId, "receive_message",
                           [fromProfessionalId |-> data.fromProfessionalId,
                            fromProfessionalName |-> data.fromProfessionalName,
                            message |-> data.message,
                            type |-> "professional"])
                /\ console' =
                     << <<"Enviando mensagem de profissional para usuario",
                          ToText(data.fromProfessionalId), ToText(data.toUserId),
                          ToText(data.message)>>,
                        RouteLog(userSocketId, "Mensagem enviada ao usuario:",
                                 "Usuario nao esta conectado", data.toUserId) >>
                /\ UNCHANGED <<status, connectedUsers, connectedProfessionals, process>>

\* handleProfessionalData looking the recipient up among the professionals
handleProfessionalDataOtherPool(c, data) ==
    /\ Dispatch(c)
    /\ UNCHANGED <<clientVars, storageVars>>
    /\ IF data = NoData
       THEN UncaughtException
       ELSE LET userSocketId ==
                    findSocketIdByUserId(connectedProfessionals, data.toUserId)
            IN  /\ emitted' =
                     Route(userSocketId, "receive_professional_data",
                           [fromProfessionalId |-> data.fromProfessionalId,
                            fromProfessionalName |-> data.fromProfessionalName,
                            dados |-> data.dados,
                            type |-> "professional_data"])
                /\ console' =
                     << <<"Enviando dados do profissional para usuario",
                          ToText(data.fromProfessionalId), ToText(data.toUserId)>>,
                        RouteLog(userSocketId, "Dados enviados ao usuario:",
                                 "Usuario nao esta conectado", data.toUserId) >>
                /\ UNCHANGED <<status, connectedUsers, connectedProfessionals, process>>

handleProfessionalData(c, data) ==
    /\ Dispatch(c)
    /\ UNCHANGED <<clientVars, storageVars>>
    /\ IF data = NoData
       THEN UncaughtException
       ELSE LET userSocketId == findSocketIdByUserId(connectedUsers, data.toUserId)
            IN  /\ emitted' =
                     Route(userSocketId, "receive_professional_data",
                           [fromProfessionalId |-> data.fromProfessionalId,
                            fromProfessionalName |-> data.fromProfessionalName,
                            dados |-> data.dados,
                            type |-> "professional_data"])
                /\ console' =
                     << <<"Enviando dados do profissional para usuario",
                          ToText(data.fromProfessionalId), ToText(data.toUserId)>>,
                        RouteLog(userSocketId, "Dados enviados ao usuario:",
                                 "Usuario nao esta conectado", data.toUserId) >>
                /\ UNCHANGED <<status, connectedUsers, connectedProfessionals, process>>

\* handleDisconnect removing by identity: every entry that carries the identity
\* of the closing socket is deleted, not only the socket's own entry
handleDisconnectByIdentity(c) ==
    /\ Dispatch(c)
    /\ UNCHANGED <<clientVars, storageVars>>
    /\ status' = [status EXCEPT ![c] = "closed"]
    /\ connectedUsers' =
         IF MapHas(connectedUsers, c)
         THEN SelectSeq(connectedUsers, LAMBDA e : e[2] # MapGet(connectedUsers, c))
         ELSE connectedUsers
    /\ connectedProfessionals' =
         IF MapHas(connectedProfessionals, c)
         THEN SelectSeq(connectedProfessionals,
                        LAMBDA e : e[2] # MapGet(connectedProfessionals, c))
         ELSE connectedProfessionals
    /\ console' = <<>>
    /\ emitted' = <<>>
    /\ UNCHANGED process

\* handleDisconnect calling Map.prototype.clear instead of delete(socket.id)
handleDisconnectClear(c) ==
    /\ Dispatch(c)
    /\ UNCHANGED <<clientVars, storageVars>>
    /\ status' = [status EXCEPT ![c] = "closed"]
    /\ connectedUsers' = (IF MapHas(connectedUsers, c) THEN <<>> ELSE connectedUsers)
    /\ connectedProfessionals' =
         (IF MapHas(connectedProfessionals, c) THEN <<>> ELSE connectedProfessionals)
    /\ console' = <<>>
    /\ emitted' = <<>>
    /\ UNCHANGED process

\* handleDisconnect without its second half: professionals are never removed
handleDisconnectUsersOnly(c) ==
    /\ Dispatch(c)
    /\ UNCHANGED <<clientVars, storageVars>>
    /\ status' = [status EXCEPT ![c] = "closed"]
    /\ connectedUsers' =
         IF MapHas(connectedUsers, c) THEN MapDelete(connectedUsers, c) ELSE connectedUsers
    /\ console' = <<>>
    /\ emitted' = <<>>
    /\ UNCHANGED <<connectedProfessionals, process>>

\* handleDisconnect reading the stored id without the has() test: for a socket
\* that is a key of neither Map the id is undefined and using it throws
handleDisconnectUnchecked(c) ==
    /\ Dispatch(c)
    /\ UNCHANGED <<clientVars, storageVars>>
    /\ emitted' = <<>>
    /\ status' = [status EXCEPT ![c] = "closed"]
    /\ connectedUsers' = MapDelete(connectedUsers, c)
    /\ connectedProfessionals' = MapDelete(connectedProfessionals, c)
    /\ IF ~ MapHas(connectedUsers, c) /\ ~ MapHas(connectedProfessionals, c)
       THEN /\ process' = (IF process = "running" THEN "closing" ELSE process)
            /\ console' = << <<"Excecao nao capturada:", "TypeError">>,
                             <<"Iniciando graceful shutdown...">> >>
       ELSE /\ console' = <<>>
            /\ UNCHANGED process

\* socket.on('disconnect'): the transport reports the close of socket c
handleDisconnect(c) ==
    /\ Dispatch(c)
    /\ UNCHANGED <<clientVars, storageVars>>
    /\ emitted' = <<>>
    /\ status' = [status EXCEPT ![c] = "closed"]
    /\ connectedUsers' =
         IF MapHas(connectedUsers, c) THEN MapDelete(connectedUsers, c) ELSE connectedUsers
    /\ connectedProfessionals' =
         IF MapHas(connectedProfessionals, c)
         THEN MapDelete(connectedProfessionals, c)
         ELSE connectedProfessionals
    /\ console' =
         (IF MapHas(connectedUsers, c)
          THEN << <<"Usuario desconectado:", MapGet(connectedUsers, c)>> >>
          ELSE <<>>)
         \o
         (IF MapHas(connectedProfessionals, c)
          THEN << <<"Profissional desconectado:",
                    MapGet(connectedProfessionals, c)>> >>
          ELSE <<>>)
    /\ UNCHANGED process

\* the callback of server.close() runs once no connection is left: process.exit(0)
ProcessExit ==
    /\ process = "closing"
    /\ UNCHANGED <<clientVars, storageVars>>
    /\ \A c \in Conns : status[c] # "open"
    /\ process' = "exited"
    /\ console' = << <<"Servidor fechado">> >>
    /\ UNCHANGED <<status, connectedUsers, connectedProfessionals, emitted>>

\* The message handlers never read their `socket` parameter, so the state a
\* message event leads to is the same whichever open socket sent it: Next takes
\* one open socket as the sender of the message events.
SenderSockets ==
    IF \E c \in Conns : status[c] = "open"
    THEN {CHOOSE c \in Conns : status[c] = "open"}
    ELSE {}

Next ==
    \/ \E c \in Conns : Connection(c)
    \/ \E c \in Conns : \E data \in LoginData \cup {NoData} : handleLogin(c, data)
    \/ \E c \in SenderSockets : \E data \in UserMessageData \cup {NoData} :
          handleUserMessage(c, data)
    \/ \E c \in SenderSockets : \E data \in ProfessionalMessageData \cup {NoData} :
          handleProfessionalMessage(c, data)
    \/ \E c \in SenderSockets : \E data \in ProfessionalDataData \cup {NoData} :
          handleProfessionalData(c, data)
    \/ \E c \in Conns : handleDisconnect(c)
    \/ ProcessExit

Spec == Init /\ [][Next]_vars

(***************************************************************************)
(* Vocabulary of the properties.                                           *)
(***************************************************************************)
Roles == {"user", "professional"}

\* the Map that holds the logins of a role
RoleMap(r) == IF r = "user" THEN connectedUsers ELSE connectedProfessionals

\* the same Map in the state after the step
RoleMapNext(r) == IF r = "user" THEN connectedUsers' ELSE connectedProfessionals'

\* connection c carries identity x in the Map of role r
Bound(c, r, x) == MapHas(RoleMap(r), c) /\ MapGet(RoleMap(r), c) = x

BoundNext(c, r, x) == MapHas(RoleMapNext(r), c) /\ MapGet(RoleMapNext(r), c) = x

\* the socket a message for identity x of role r is routed to, or Null
Lookup(r, x) == findSocketIdByUserId(RoleMap(r), x)

LookupNext(r, x) == findSocketIdByUserId(RoleMapNext(r), x)

\* the handler that ran last was the login of connection c as identity x of role r
JustLoggedIn(c, r, x) ==
    /\ Len(console) = 1
    /\ console[1][1] = (IF r = "user" THEN "Usuario conectado: com socket id:"
                                      ELSE "Profissional conectado: com socket id:")
    /\ console[1][2] = ToText(x)
    /\ console[1][3] = c
    /\ Bound(c, r, x)

\* the handler that ran last was a disconnect that removed identity x from the Map of role r
JustDisconnectedAs(r, x) ==
    \E i \in 1..Len(console) :
        /\ console[i][1] = (IF r = "user" THEN "Usuario desconectado:"
                                          ELSE "Profissional desconectado:")
        /\ console[i][2] = x

----------------------------------------------------------------------------
(* C1: for each (role, identity) at most one connection is bound to it: no  *)
(* two distinct socket ids of the same role Map carry the same identity.    *)
C1_OneConnectionPerIdentity ==
    \A r \in Roles : \A x \in IdValues : \A c1, c2 \in Conns :
        (Bound(c1, r, x) /\ Bound(c2, r, x)) => c1 = c2

(* C2: last-write-wins.  When connection c2 has just logged in as identity  *)
(* x of role r, a message routed to (r, x) is delivered to c2, whatever     *)
(* other open connection logged in as (r, x) before.                        *)
C2_LastLoginWins ==
    [][ \A c2 \in Conns : \A x \in IdValues :
          /\ JustLoggedIn(c2, "professional", x) =>
                \A c \in Conns : \A data \in UserMessageData :
                    (data.toProfessionalId = x /\ handleUserMessage(c, data)) =>
                        (Len(emitted') = 1 /\ emitted'[1].to = c2)
          /\ JustLoggedIn(c2, "user", x) =>
                \A c \in Conns : \A data \in ProfessionalMessageData :
                    (data.toUserId = x /\ handleProfessionalMessage(c, data)) =>
                        (Len(emitted') = 1 /\ emitted'[1].to = c2)
      ]_vars

(* C3: a connection has at most one binding: no socket id is a key of both  *)
(* connectedUsers and connectedProfessionals.                               *)
C3_OneBindingPerConnection ==
    \A c \in Conns : ~ (MapHas(connectedUsers, c) /\ MapHas(connectedProfessionals, c))

(* C4: handling the close of connection c changes only c's own binding: the  *)
(* entry of every other connection, in either role Map, is the same before  *)
(* and after handleDisconnect(c), also when it carries the identity c had.  *)
C4_DisconnectFrame ==
    [][ \A c \in Conns : handleDisconnect(c) =>
          \A c2 \in Conns \ {c} : \A r \in Roles :
              /\ MapHas(RoleMapNext(r), c2) = MapHas(RoleMap(r), c2)
              /\ MapGet(RoleMapNext(r), c2) = MapGet(RoleMap(r), c2)
      ]_vars

\* a connection has just closed with identity x of role r, and another
\* connection is still bound to the same (r, x)
C4_Witness ==
    \E r \in Roles : \E x \in IdValues : \E c, c2 \in Conns :
        /\ c # c2
        /\ status[c] = "closed"
        /\ JustDisconnectedAs(r, x)
        /\ Bound(c2, r, x)

(* C5: reconnect race.  When connection c1 closes while another connection  *)
(* c2 is logged in as the same (role, identity), the lookup of that         *)
(* identity still resolves afterwards, to a connection other than c1 that   *)
(* is bound to it: to c2 when c2 is the only one.                           *)
C5_ReconnectRace ==
    [][ \A c1 \in Conns : handleDisconnect(c1) =>
          \A r \in Roles : \A x \in IdValues : \A c2 \in Conns \ {c1} :
              (Bound(c1, r, x) /\ Bound(c2, r, x)) =>
                  /\ LookupNext(r, x) # Null
                  /\ LookupNext(r, x) # c1
                  /\ BoundNext(LookupNext(r, x), r, x)
                  /\ (\A c3 \in Conns \ {c1, c2} : ~ Bound(c3, r, x)) =>
                         LookupNext(r, x) = c2
      ]_vars

\* c1 has just closed with identity x of role r and the lookup of (r, x) gives c2
C5_Witness ==
    \E r \in Roles : \E x \in IdValues : \E c1, c2 \in Conns :
        /\ c1 # c2
        /\ status[c1] = "closed"
        /\ status[c2] = "open"
        /\ JustDisconnectedAs(r, x)
        /\ Lookup(r, x) = c2

(* C6: once every connection logged in as (role, identity) has closed, the  *)
(* lookup of that identity finds nothing.  A closed connection is a key of  *)
(* no Map and is never the result of a lookup; the close of the last        *)
(* connection bound to an identity leaves it unbound; and an unbound        *)
(* identity becomes addressable again only by a login event for it.         *)
C6_ClosedIsUnbound ==
    /\ [] (\A c \in Conns : status[c] # "open" =>
              /\ ~ MapHas(connectedUsers, c)
              /\ ~ MapHas(connectedProfessionals, c)
              /\ \A r \in Roles : \A x \in IdValues : Lookup(r, x) # c)
    /\ [][ \A c \in Conns : handleDisconnect(c) =>
              \A r \in Roles : \A x \in IdValues :
                  (\A c2 \in Conns \ {c} : ~ Bound(c2, r, x)) => LookupNext(r, x) = Null
         ]_vars
    /\ [][ \A r \in Roles : \A x \in IdValues :
              (Lookup(r, x) = Null /\ LookupNext(r, x) # Null) =>
                  \E c \in Conns : handleLogin(c, [type |-> r, userId |-> x])
         ]_vars

\* every connection is closed, the last close removed identity x of role r,
\* and the lookup of (r, x) finds nothing
C6_Witness ==
    \E r \in Roles : \E x \in IdValues :
        /\ \A c \in Conns : status[c] = "closed"
        /\ JustDisconnectedAs(r, x)
        /\ Lookup(r, x) = Null

(* C7: a superseded connection stays unaddressable.  When connection c2 has *)
(* just logged in as (role, identity) (so that any older login of that      *)
(* identity is superseded) and then closes, the lookup of the identity      *)
(* finds nothing.                                                           *)
C7_SupersededUnaddressable ==
    [][ \A c2 \in Conns : \A r \in Roles : \A x \in IdValues :
          (JustLoggedIn(c2, r, x) /\ handleDisconnect(c2)) => LookupNext(r, x) = Null
      ]_vars

\* the handler raised no exception: the process-level handler did not run
NoException ==
    /\ process' = process
    /\ \A i \in 1..Len(console') : console'[i][1] # "Excecao nao capturada:"

\* the first log line of the step is the one handleUserMessage writes for data
LogsUserMessage(data) ==
    /\ Len(console') = 2
    /\ Len(console'[1]) = 4
    /\ console'[1][1] = "Enviando mensagem de usuario para profissional"
    /\ console'[1][2] = ToText(data.fromUserId)
    /\ console'[1][3] = ToText(data.toProfessionalId)
    /\ console'[1][4] = ToText(data.message)

\* the first log line of the step is the one handleProfessionalMessage writes for data
LogsProfessionalMessage(data) ==
    /\ Len(console') = 2
    /\ Len(console'[1]) = 4
    /\ console'[1][1] = "Enviando mensagem de profissional para usuario"
    /\ console'[1][2] = ToText(data.fromProfessionalId)
    /\ console'[1][3] = ToText(data.toUserId)
    /\ console'[1][4] = ToText(data.message)

\* the first log line of the step is the one handleProfessionalData writes for data
LogsProfessionalData(data) ==
    /\ Len(console') = 2
    /\ Len(console'[1]) = 3
    /\ console'[1][1] = "Enviando dados do profissional para usuario"
    /\ console'[1][2] = ToText(data.fromProfessionalId)
    /\ console'[1][3] = ToText(data.toUserId)

\* the step is the handling of send_message with payload data, on some socket
UserMessageStep(data) ==
    LogsUserMessage(data) /\ \E c \in Conns : handleUserMessage(c, data)

\* the step is the handling of send_professional_message with payload data
ProfessionalMessageStep(data) ==
    LogsProfessionalMessage(data) /\ \E c \in Conns : handleProfessionalMessage(c, data)

\* the step is the handling of send_professional_data with payload data
ProfessionalDataStep(data) ==
    LogsProfessionalData(data) /\ \E c \in Conns : handleProfessionalData(c, data)

C9_UnboundRecipientDropped ==
    [][ /\ \A data \in UserMessageData :
             (/\ UserMessageStep(data)
              /\ \A b \in Conns : ~ Bound(b, "professional", data.toProfessionalId)) =>
                 /\ emitted' = <<>>
                 /\ NoException
                 /\ UNCHANGED <<status, connectedUsers, connectedProfessionals>>
        /\ \A data \in ProfessionalMessageData :
             (/\ ProfessionalMessageStep(data)
              /\ \A b \in Conns : ~ Bound(b, "user", data.toUserId)) =>
                 /\ emitted' = <<>>
                 /\ NoException
                 /\ UNCHANGED <<status, connectedUsers, connectedProfessionals>>
        /\ \A data \in ProfessionalDataData :
             (/\ ProfessionalDataStep(data)
              /\ \A b \in Conns : ~ Bound(b, "user", data.toUserId)) =>
                 /\ emitted' = <<>>
                 /\ NoException
                 /\ UNCHANGED <<status, connectedUsers, connectedProfessionals>>
      ]_vars

\* profile data has just been routed to a user nobody is logged in as: nothing
\* was emitted, the process runs and the sender's connection is still open
C9_Witness ==
    /\ Len(console) = 2
    /\ console[1][1] = "Enviando dados do profissional para usuario"
    /\ console[2][1] = "Usuario nao esta conectado"
    /\ connectedUsers = <<>>
    /\ emitted = <<>>
    /\ process = "running"
    /\ \E c \in Conns : status[c] = "open"

\* the one transport call a message handler makes for its own payload
OwnDelivery(to, event, payload) ==
    emitted' = << [to |-> to, event |-> event, payload |-> payload] >>

(* C10: delivery is at-most-once with no queueing.  Every handler makes at  *)
(* most one transport call; a call is made only by the handler of a message *)
(* event and carries that event's own payload to one connection; the        *)
(* handlers of connection, login and disconnect deliver nothing, so a       *)
(* message dropped earlier is not delivered when its recipient logs in.     *)
C10_AtMostOnceNoQueue ==
    [][ /\ Len(emitted') <= 1
        /\ emitted' # <<>> =>
             \/ \E data \in UserMessageData :
                    /\ UserMessageStep(data)
                    /\ OwnDelivery(Lookup("professional", data.toProfessionalId),
                                   "receive_message",
                                   [fromUserId |-> data.fromUserId,
                                    fromUserName |-> data.fromUserName,
                                    message |-> data.message, type |-> "user"])
             \/ \E data \in ProfessionalMessageData :
                    /\ ProfessionalMessageStep(data)
                    /\ OwnDelivery(Lookup("user", data.toUserId),
                                   "receive_message",
                                   [fromProfessionalId |-> data.fromProfessionalId,
                                    fromProfessionalName |-> data.fromProfessionalName,
                                    message |-> data.message, type |-> "professional"])
             \/ \E data \in ProfessionalDataData :
                    /\ ProfessionalDataStep(data)
                    /\ OwnDelivery(Lookup("user", data.toUserId),
                                   "receive_professional_data",
                                   [fromProfessionalId |-> data.fromProfessionalId,
                                    fromProfessionalName |-> data.fromProfessionalName,
                                    dados |-> data.dados, type |-> "professional_data"])
        /\ emitted' # <<>> =>
             ~ \E c \in Conns :
                   \/ \E data \in LoginData \cup {NoData} : handleLogin(c, data)
                   \/ Connection(c)
                   \/ handleDisconnect(c)
      ]_vars

\* one message has just been delivered, once, while every connection is
\* logged in as the same professional identity
C10_Witness ==
    /\ Len(emitted) = 1
    /\ emitted[1].payload.type = "user"
    /\ \E x \in IdValues : \A c \in Conns : Bound(c, "professional", x)

\* connection c is a key of neither Map: it has not logged in, or it has closed
NotLoggedIn(c) == ~ MapHas(connectedUsers, c) /\ ~ MapHas(connectedProfessionals, c)

(* C11: every transport call of a routing step goes to a connection that,   *)
(* in the state the routing reads, is open and carries the recipient        *)
(* identity of the inbound event in the Map of the recipient role; a        *)
(* connection that is not open, or that is open and has not logged in, is   *)
(* the target of no transport call.                                         *)
C11_DeliveryOnlyToBoundOpen ==
    [][ emitted' # <<>> =>
          /\ \A i \in 1..Len(emitted') : \A c \in Conns :
                 (status[c] # "open" \/ NotLoggedIn(c)) => emitted'[i].to # c
          /\ \A data \in UserMessageData :
                 UserMessageStep(data) =>
                     \A i \in 1..Len(emitted') :
                         /\ status[emitted'[i].to] = "open"
                         /\ Bound(emitted'[i].to, "professional", data.toProfessionalId)
          /\ \A data \in ProfessionalMessageData :
                 ProfessionalMessageStep(data) =>
                     \A i \in 1..Len(emitted') :
                         /\ status[emitted'[i].to] = "open"
                         /\ Bound(emitted'[i].to, "user", data.toUserId)
          /\ \A data \in ProfessionalDataData :
                 ProfessionalDataStep(data) =>
                     \A i \in 1..Len(emitted') :
                         /\ status[emitted'[i].to] = "open"
                         /\ Bound(emitted'[i].to, "user", data.toUserId)
      ]_vars

\* profile data has just been delivered to a logged-in user while another
\* connection is open without a login
C11_Witness ==
    /\ Len(emitted) = 1
    /\ emitted[1].event = "receive_professional_data"
    /\ MapHas(connectedUsers, emitted[1].to)
    /\ \E c \in Conns \ {emitted[1].to} : status[c] = "open" /\ NotLoggedIn(c)

\* the first log line of the step is the first line of a message handler, or
\* the line of the process-level exception handler
LogsRouting ==
    /\ console' # <<>>
    /\ console'[1][1] \in {"Enviando mensagem de usuario para profissional",
                           "Enviando mensagem de profissional para usuario",
                           "Enviando dados do profissional para usuario",
                           "Excecao nao capturada:"}

\* the step is the handling of one of the three message events, with a payload
\* or without one
RoutingStep ==
    /\ LogsRouting
    /\ \E c \in Conns :
          \/ \E data \in UserMessageData \cup {NoData} : handleUserMessage(c, data)
          \/ \E data \in ProfessionalMessageData \cup {NoData} :
                 handleProfessionalMessage(c, data)
          \/ \E data \in ProfessionalDataData \cup {NoData} :
                 handleProfessionalData(c, data)

(* C12: routing does not write the registry.  The handling of send_message, *)
(* send_professional_message and send_professional_data leaves              *)
(* connectedUsers and connectedProfessionals as they were, entry for entry  *)
(* and in the same order, when the message is delivered and when it is      *)
(* dropped.                                                                 *)
C12_RoutingFrame ==
    [][ RoutingStep => UNCHANGED <<connectedUsers, connectedProfessionals>> ]_vars

\* a professional message has just been delivered and both Maps have entries
C12_Witness ==
    /\ Len(console) = 2
    /\ console[2][1] = "Mensagem enviada ao usuario:"
    /\ Len(emitted) = 1
    /\ connectedUsers # <<>>
    /\ connectedProfessionals # <<>>

(* C13: an inbound login or message event without a payload object is       *)
(* discarded: its handling raises no uncaught exception, leaves the process *)
(* running and changes no binding; and the relay process never leaves the   *)
(* running state, whatever events arrive.                                   *)
C13_MalformedEventDiscarded ==
    /\ [][ \A c \in Conns :
             (\/ handleLogin(c, NoData)
              \/ handleUserMessage(c, NoData)
              \/ handleProfessionalMessage(c, NoData)
              \/ handleProfessionalData(c, NoData)) =>
                 /\ NoException
                 /\ UNCHANGED <<connectedUsers, connectedProfessionals>>
         ]_vars
    /\ [](process = "running")

(* C14: with the connections issuing login, message and disconnect events   *)
(* in any interleaving, one handler at a time, every reachable state has    *)
(* at most one binding per connection (I1) and at most one connection per   *)
(* (role, identity) (I2), every close removes only the closing connection's *)
(* entries (I3) and a message for an unbound identity reaches nobody (I4).  *)
C14_InterleavingKeepsInvariants ==
    /\ [] /\ \A c \in Conns :                                              \* I1
                ~ (MapHas(connectedUsers, c) /\ MapHas(connectedProfessionals, c))
          /\ \A r \in Roles :                                              \* I2
                \A i, j \in 1..Len(RoleMap(r)) :
                    RoleMap(r)[i][2] = RoleMap(r)[j][2] => i = j
    /\ [][ /\ \A c \in Conns :                                             \* I3
                 handleDisconnect(c) =>
                     \A r \in Roles : \A i \in 1..Len(RoleMap(r)) :
                         RoleMap(r)[i][1] # c =>
                             \E j \in 1..Len(RoleMapNext(r)) :
                                 RoleMapNext(r)[j] = RoleMap(r)[i]
           /\ \A data \in UserMessageData :                                \* I4
                 (/\ UserMessageStep(data)
                  /\ Lookup("professional", data.toProfessionalId) = Null)
                     => emitted' = <<>>
           /\ \A data \in ProfessionalMessageData :
                 (ProfessionalMessageStep(data) /\ Lookup("user", data.toUserId) = Null)
                     => emitted' = <<>>
           /\ \A data \in ProfessionalDataData :
                 (ProfessionalDataStep(data) /\ Lookup("user", data.toUserId) = Null)
                     => emitted' = <<>>
         ]_vars

\* getConnectionStats: the sizes of the two Maps and their sum
getConnectionStats ==
    [connectedUsers |-> Len(connectedUsers),
     connectedProfessionals |-> Len(connectedProfessionals),
     totalConnections |-> Len(connectedUsers) + Len(connectedProfessionals)]

\* the identities that have an entry in the Map of role r
BoundIdentities(r) == {RoleMap(r)[i][2] : i \in 1..Len(RoleMap(r))}

(* C15: in every reachable state the statistics give, per role, the number  *)
(* of distinct identities that have a binding: connectedUsers is the number *)
(* of distinct user identities with an entry and connectedProfessionals the *)
(* number of distinct professional identities with an entry.                *)
C15_StatsCountDistinctIdentities ==
    /\ getConnectionStats.connectedUsers = Cardinality(BoundIdentities("user"))
    /\ getConnectionStats.connectedProfessionals =
           Cardinality(BoundIdentities("professional"))

\* connection c is a key of neither Map after the step
NotLoggedInNext(c) ==
    ~ MapHas(connectedUsers', c) /\ ~ MapHas(connectedProfessionals', c)

(* C16: handling the close of a connection that is a key of neither Map (it *)
(* never logged in) leaves both Maps as they were, logs nothing and raises  *)
(* no exception; and after the close of any connection that connection is a *)
(* key of neither Map, so that handling its close once more would again be  *)
(* this case: no change, no exception.                                      *)
C16_CloseWithoutLoginIsNoop ==
    [][ \A c \in Conns :
          (status[c] = "open" /\ status'[c] = "closed" /\ handleDisconnect(c)) =>
              /\ NoException
              /\ NotLoggedInNext(c)
              /\ NotLoggedIn(c) =>
                     /\ UNCHANGED <<connectedUsers, connectedProfessionals>>
                     /\ console' = <<>>
      ]_vars

\* one connection was opened and closed without any login: it is the only
\* connection ever opened, nothing was logged by its close, the registry is
\* empty and the process runs
C16_Witness ==
    /\ \E c \in Conns :
          /\ status[c] = "closed"
          /\ \A c2 \in Conns \ {c} : status[c2] = "new"
    /\ console = <<>>
    /\ connectedUsers = <<>>
    /\ connectedProfessionals = <<>>
    /\ process = "running"

(* C17: login is idempotent.  When the login of connection c as identity x  *)
(* of role r has just been handled and the same login event of c is handled *)
(* again, both Maps stay as they are (entries and order), so every lookup   *)
(* gives the same result and the statistics are the same.                   *)
C17_LoginIdempotent ==
    [][ \A c \in Conns : \A r \in Roles : \A x \in IdValues :
          (JustLoggedIn(c, r, x) /\ handleLogin(c, [type |-> r, userId |-> x])) =>
              /\ UNCHANGED <<connectedUsers, connectedProfessionals>>
              /\ \A r2 \in Roles : \A x2 \in IdValues : LookupNext(r2, x2) = Lookup(r2, x2)
              /\ getConnectionStats' = getConnectionStats
      ]_vars

\* connection c has just logged in as a user again: its entry is older than
\* the entry of another connection with the same identity, and it is still
\* the first one
C17_Witness ==
    \E c \in Conns : \E x \in IdValues :
        /\ JustLoggedIn(c, "user", x)
        /\ Len(connectedUsers) >= 2
        /\ connectedUsers[1] = <<c, x>>
        /\ connectedUsers[2][2] = x
        /\ getConnectionStats.connectedUsers = Len(connectedUsers)

(* C18: when a connection c that is logged in handles a login event with a  *)
(* role in {user, professional}, c carries the new identity in the Map of   *)
(* the new role afterwards, and for every other (role, identity) that c     *)
(* carried before, c no longer carries it and the lookup of it does not     *)
(* give c: messages for the previous identity do not reach c.               *)
C18_ReloginRebinds ==
    [][ \A c \in Conns : \A data \in LoginData :
          (/\ data.type \in Roles
           /\ ~ NotLoggedIn(c)
           /\ handleLogin(c, data)) =>
              /\ BoundNext(c, data.type, data.userId)
              /\ \A r \in Roles : \A x \in IdValues :
                     (Bound(c, r, x) /\ <<r, x>> # <<data.type, data.userId>>) =>
                         /\ ~ BoundNext(c, r, x)
                         /\ LookupNext(r, x) # c
      ]_vars

(* C19: no binding survives a reconnection.  After the close of the         *)
(* connection that logged in as identity x of role r (the one whose login   *)
(* was handled last) the lookup of (r, x) finds nothing; the establishment  *)
(* of a connection leaves both Maps as they are and the new connection a    *)
(* key of neither; and a lookup that found nothing finds a connection again *)
(* only by the handling of a login event for (r, x), and then it finds the  *)
(* connection that logged in.                                               *)
C19_NoBindingSurvivesReconnect ==
    [][ /\ \A c \in Conns : \A r \in Roles : \A x \in IdValues :
              (JustLoggedIn(c, r, x) /\ status'[c] = "closed" /\ handleDisconnect(c)) =>
                  LookupNext(r, x) = Null
        /\ \A c \in Conns :
              (status[c] = "new" /\ Connection(c)) =>
                  /\ UNCHANGED <<connectedUsers, connectedProfessionals>>
                  /\ NotLoggedInNext(c)
        /\ \A r \in Roles : \A x \in IdValues :
              (Lookup(r, x) = Null /\ LookupNext(r, x) # Null) =>
                  \E c \in Conns :
                      /\ handleLogin(c, [type |-> r, userId |-> x])
                      /\ LookupNext(r, x) = c
      ]_vars

\* the first log line of the step is the line handleLogin writes for a login
\* of the given type
LogsLogin(type) ==
    /\ Len(console') = 1
    /\ console'[1][1] = (IF type = "user" THEN "Usuario conectado: com socket id:"
                                          ELSE "Profissional conectado: com socket id:")

(* C20: users and professionals are two name spaces.  A message for         *)
(* professional x is delivered only to a connection that carries x in       *)
(* connectedProfessionals, never to one that carries x in connectedUsers    *)
(* alone, and a message or profile data for user x only to a connection     *)
(* that carries x in connectedUsers; the login of a connection as user x    *)
(* leaves connectedProfessionals, and so the result of every lookup of a    *)
(* professional, as it was, and the login as professional x leaves          *)
(* connectedUsers and every lookup of a user as they were.                  *)
C20_DisjointNameSpaces ==
    [][ /\ emitted' # <<>> =>
              /\ \A data \in UserMessageData :
                     UserMessageStep(data) =>
                         \A i \in 1..Len(emitted') :
                             /\ Bound(emitted'[i].to, "professional", data.toProfessionalId)
                             /\ emitted'[i].to = Lookup("professional", data.toProfessionalId)
              /\ \A data \in ProfessionalMessageData :
                     ProfessionalMessageStep(data) =>
                         \A i \in 1..Len(emitted') :
                             /\ Bound(emitted'[i].to, "user", data.toUserId)
                             /\ emitted'[i].to = Lookup("user", data.toUserId)
              /\ \A data \in ProfessionalDataData :
                     ProfessionalDataStep(data) =>
                         \A i \in 1..Len(emitted') :
                             /\ Bound(emitted'[i].to, "user", data.toUserId)
                             /\ emitted'[i].to = Lookup("user", data.toUserId)
        /\ \A r \in Roles :
              (LogsLogin(r) /\ \E c \in Conns : \E x \in IdValues :
                                   handleLogin(c, [type |-> r, userId |-> x])) =>
                  \A r2 \in Roles \ {r} :
                      /\ RoleMapNext(r2) = RoleMap(r2)
                      /\ \A x2 \in IdValues : LookupNext(r2, x2) = Lookup(r2, x2)
      ]_vars

\* one connection has just logged in as user x while another connection is
\* logged in as professional x, and the lookup of professional x still gives
\* that other connection
C20_Witness ==
    \E c1, c2 \in Conns : \E x \in IdValues :
        /\ c1 # c2
        /\ JustLoggedIn(c1, "user", x)
        /\ ~ MapHas(connectedProfessionals, c1)
        /\ Bound(c2, "professional", x)
        /\ ~ MapHas(connectedUsers, c2)
        /\ Lookup("professional", x) = c2
        /\ Lookup("user", x) = c1

\* the socket the step delivered to, or Null when it delivered nothing
DeliveredTo == IF emitted' = <<>> THEN Null ELSE emitted'[1].to

(* C21: a professional's chat message and a professional's profile data     *)
(* take the same routing path.  In every registry state the handling of     *)
(* either kind, addressed to user identity x, delivers to the socket the    *)
(* lookup of x in connectedUsers gives and drops when that lookup finds     *)
(* nothing: so both kinds are dropped or both go to the same connection.    *)
(* They differ in the event name and in the payload (message or dados).     *)
C21_SharedRoutingPath ==
    [][ /\ \A data \in ProfessionalMessageData :
              ProfessionalMessageStep(data) =>
                  /\ Len(emitted') <= 1
                  /\ DeliveredTo = Lookup("user", data.toUserId)
                  /\ emitted' # <<>> =>
                         /\ emitted'[1].event = "receive_message"
                         /\ emitted'[1].payload.type = "professional"
                         /\ emitted'[1].payload.message = data.message
        /\ \A data \in ProfessionalDataData :
              ProfessionalDataStep(data) =>
                  /\ Len(emitted') <= 1
                  /\ DeliveredTo = Lookup("user", data.toUserId)
                  /\ emitted' # <<>> =>
                         /\ emitted'[1].event = "receive_professional_data"
                         /\ emitted'[1].payload.type = "professional_data"
                         /\ emitted'[1].payload.dados = data.dados
      ]_vars

\* profile data has just been delivered to the first of two connections that
\* are logged in as the same user, the one a chat message would reach too
C21_Witness ==
    /\ Len(emitted) = 1
    /\ emitted[1].event = "receive_professional_data"
    /\ Len(connectedUsers) >= 2
    /\ connectedUsers[1][2] = connectedUsers[2][2]
    /\ emitted[1].to = connectedUsers[1][1]
    /\ emitted[1].to = Lookup("user", connectedUsers[1][2])

(* C22: the relay authenticates nothing.  A login event of any open         *)
(* connection is handled for every (role, identity) it asserts, whoever     *)
(* carries that identity already, and binds the connection to it.  The      *)
(* handling of a message event is the same step whichever open connection   *)
(* sent it, logged in or not and whatever identity it is logged in as, and  *)
(* a delivered payload carries the sender id and the sender name of the     *)
(* event as they were asserted.                                             *)
C22_NoAuthentication ==
    /\ [](\A c \in Conns : \A data \in LoginData :
              Dispatch(c) => ENABLED handleLogin(c, data))
    /\ [][ /\ \A r \in Roles :
                 LogsLogin(r) =>
                     \A c \in Conns : \A x \in IdValues :
                         handleLogin(c, [type |-> r, userId |-> x]) => BoundNext(c, r, x)
           /\ \A data \in UserMessageData :
                 UserMessageStep(data) =>
                     /\ \A c \in Conns : status[c] = "open" => handleUserMessage(c, data)
                     /\ \A i \in 1..Len(emitted') :
                            /\ emitted'[i].payload.fromUserId = data.fromUserId
                            /\ emitted'[i].payload.fromUserName = data.fromUserName
           /\ \A data \in ProfessionalMessageData :
                 ProfessionalMessageStep(data) =>
                     /\ \A c \in Conns :
                            status[c] = "open" => handleProfessionalMessage(c, data)
                     /\ \A i \in 1..Len(emitted') :
                            /\ emitted'[i].payload.fromProfessionalId =
                                   data.fromProfessionalId
                            /\ emitted'[i].payload.fromProfessionalName =
                                   data.fromProfessionalName
         ]_vars

\* a message that names user 1 ("Ana") as its sender has just been delivered
\* to a professional while no connection is logged in as a user at all
C22_Witness ==
    /\ Len(emitted) = 1
    /\ emitted[1].payload.type = "user"
    /\ emitted[1].payload.fromUserId = Num("1")
    /\ emitted[1].payload.fromUserName = Str("Ana")
    /\ connectedUsers = <<>>
    /\ MapHas(connectedProfessionals, emitted[1].to)

\* the step changed one of the two Maps
RegistryChanged ==
    connectedUsers' # connectedUsers \/ connectedProfessionals' # connectedProfessionals

(* C24: a binding is removed only by the close of its own connection.  A    *)
(* connection that is a key of a role Map stays a key of it in every step   *)
(* but the handling of its own disconnect, and the identity it carries      *)
(* there changes only by its own login in that role: no login, message or   *)
(* disconnect of another connection and no message of its own touches the   *)
(* entry, and no other event (such as a logout) exists.                     *)
C24_RemovedOnlyByOwnClose ==
    [][ RegistryChanged =>
          \A c \in Conns : \A r \in Roles :
              MapHas(RoleMap(r), c) =>
                  /\ ~ MapHas(RoleMapNext(r), c) => handleDisconnect(c)
                  /\ (/\ MapHas(RoleMapNext(r), c)
                      /\ MapGet(RoleMapNext(r), c) # MapGet(RoleMap(r), c)) =>
                         handleLogin(c, [type |-> r, userId |-> MapGet(RoleMapNext(r), c)])
      ]_vars

\* connection c2 has just logged in as the identity connection c1 carries in
\* the same role, and c1 still carries it
C24_Witness ==
    \E c1, c2 \in Conns : \E r \in Roles : \E x \in IdValues :
        /\ c1 # c2
        /\ JustLoggedIn(c2, r, x)
        /\ Bound(c1, r, x)
        /\ status[c1] = "open"

\* the value the page reads back from element.dataset after it wrote the id
\* into the data-profissional-id attribute with a template string: a string
DatasetValue(id) == Str(ToText(id))

(* C23: chat works in both directions with the ids the page sends.  When a  *)
(* professional is logged in on an open connection with id p (the page      *)
(* sends the id of the login response as it is) and a logged-in user sends  *)
(* a message to the professional chosen from the search list (the page      *)
(* sends the value of the button's data-profissional-id attribute), the     *)
(* message is delivered to a connection logged in as professional p; and    *)
(* the reply of the professional, addressed to the fromUserId the message   *)
(* carried, is delivered to a connection logged in as that user.            *)
C23_BidirectionalChat ==
    [][ /\ \A data \in UserMessageData : \A p \in IdValues :
              (/\ UserMessageStep(data)
               /\ data.toProfessionalId = DatasetValue(p)
               /\ \E u \in Conns : Bound(u, "user", data.fromUserId)
               /\ \E b \in Conns : Bound(b, "professional", p) /\ status[b] = "open") =>
                  /\ Len(emitted') = 1
                  /\ Bound(emitted'[1].to, "professional", p)
        /\ \A data \in ProfessionalMessageData :
              (/\ ProfessionalMessageStep(data)
               /\ \E u \in Conns : Bound(u, "user", data.toUserId) /\ status[u] = "open") =>
                  /\ Len(emitted') = 1
                  /\ Bound(emitted'[1].to, "user", data.toUserId)
      ]_vars

(***************************************************************************)
(* The browser side: SocketService of the page (frontend).  A socket       *)
(* object made by io() connects and reconnects by itself, keeps the        *)
(* handlers registered on it, and buffers what is emitted on it while it   *)
(* is not connected until it connects.                                     *)
(***************************************************************************)
\* the pending timers and the buffered packets of one socket in the model
MaxTimers == 5

MaxBuffer == 1

\* the socket objects created so far
Created == {s \in SocketIds : ioSockets[s].state # "none"}

\* the id of the socket object the next io() returns
NextSocketId == Cardinality(Created) + 1

\* initializeSocket: this.socket = io(); setupEventHandlers().  The new
\* socket object carries the five handlers of the service and nothing else.
initializeSocket(socks) ==
    [socket |-> NextSocketId,
     ioSockets |-> [socks EXCEPT ![NextSocketId] = NewSocket],
     wire |-> <<>>,
     log |-> << <<"Socket.IO inicializado">> >>]

\* socket.emit(event) of the library on socket object sk: sent when sk is
\* connected, kept in its sendBuffer otherwise
SocketEmit(sk, event, socks) ==
    IF socks[sk].state = "connected"
    THEN [socket |-> sk, ioSockets |-> socks, wire |-> << <<sk, event>> >>, log |-> <<>>]
    ELSE [socket |-> sk,
          ioSockets |-> [socks EXCEPT ![sk].sendBuffer = Append(@, event)],
          wire |-> <<>>,
          log |-> <<>>]

\* SocketService.emit with every call handed to the held socket (no test of
\* the connection, no new socket)
emitAlways(event, sk, conn, socks) ==
    [SocketEmit(sk, event, socks) EXCEPT !.log = << <<"Evento emitido:", event>> >>]

\* SocketService.emit(event), called with this.socket = sk, this.isConnected
\* = conn: what it makes of this.socket and of the socket objects, what it
\* sends and what it logs
emit(event, sk, conn, socks) ==
    IF ~ conn
    THEN [initializeSocket(socks) EXCEPT
              !.log = << <<"Socket nao conectado. Tentando reconectar...">> >> \o @]
    ELSE [SocketEmit(sk, event, socks) EXCEPT !.log = << <<"Evento emitido:", event>> >>]

\* the call emit(event) can be followed in the model: a socket object is left
\* for initializeSocket, or room in the sendBuffer of the held socket
CanEmit(sk, conn, socks) ==
    IF ~ conn
    THEN NextSocketId <= MaxSockets
    ELSE socks[sk].state = "connected" \/ Len(socks[sk].sendBuffer) < MaxBuffer

\* the socket object s connects: the library sends its sendBuffer, then the
\* 'connect' handler runs
SocketConnect(s) ==
    /\ ioSockets[s].state = "connecting"
    /\ LET flushed == [ioSockets EXCEPT ![s].state = "connected",
                                        ![s].sendBuffer = <<>>]
           sent == [i \in 1..Len(ioSockets[s].sendBuffer) |->
                       <<s, ioSockets[s].sendBuffer[i]>>]
           e == emit("connection_established", socket, TRUE, flushed)
       IN  /\ CanEmit(socket, TRUE, flushed)
           /\ isConnected' = TRUE
           /\ reconnectAttempts' = 0
           /\ socket' = e.socket
           /\ ioSockets' = e.ioSockets
           /\ wire' = sent \o e.wire
           /\ browserConsole' = << <<"Conectado ao servidor Socket.IO">> >> \o e.log
    /\ called' = {}
    /\ UNCHANGED <<eventListeners, timers, relayVars, storageVars>>

\* the reasons of a 'disconnect' event: after the first the library does not
\* reconnect the socket by itself, after the second it does
DisconnectReasons == {"io server disconnect", "transport close"}

\* the socket object s loses its connection: the 'disconnect' handler runs
SocketDisconnect(s, reason) ==
    /\ ioSockets[s].state = "connected"
    /\ LET lost == [ioSockets EXCEPT ![s].state =
                        IF reason = "io server disconnect" THEN "closed"
                                                           ELSE "connecting"]
           e == emit("connection_lost", socket, FALSE, lost)
       IN  /\ CanEmit(socket, FALSE, lost)
           /\ isConnected' = FALSE
           /\ socket' = e.socket
           \* this.socket.connect(), for "io server disconnect": this.socket
           \* is the socket emit has just created, which is connecting already
           /\ ioSockets' = e.ioSockets
           /\ wire' = e.wire
           /\ browserConsole' =
                  << <<"Desconectado do servidor Socket.IO:", reason>> >> \o e.log
    /\ called' = {}
    /\ UNCHANGED <<reconnectAttempts, eventListeners, timers, relayVars, storageVars>>

\* a connection attempt of socket object s fails: the 'connect_error' handler
\* runs handleConnectionError; the library goes on trying
SocketConnectError(s) ==
    /\ ioSockets[s].state = "connecting"
    /\ called' = {}
    /\ IF reconnectAttempts < maxReconnectAttempts
       THEN /\ timers < MaxTimers
            /\ reconnectAttempts' = reconnectAttempts + 1
            /\ timers' = timers + 1
            /\ wire' = <<>>
            /\ browserConsole' = << <<"Erro de conexao Socket.IO:">>,
                                    <<"Tentativa de reconexao", reconnectAttempts + 1>> >>
            /\ UNCHANGED <<socket, ioSockets>>
       ELSE LET e == emit("max_reconnect_attempts_reached", socket, isConnected, ioSockets)
            IN  /\ CanEmit(socket, isConnected, ioSockets)
                /\ socket' = e.socket
                /\ ioSockets' = e.ioSockets
                /\ wire' = e.wire
                /\ browserConsole' =
                       << <<"Erro de conexao Socket.IO:">>,
                          <<"Maximo de tentativas de reconexao atingido">> >> \o e.log
                /\ UNCHANGED <<reconnectAttempts, timers>>
    /\ UNCHANGED <<isConnected, eventListeners, relayVars, storageVars>>

\* a timer of handleConnectionError fires: initializeSocket()
Timeout ==
    /\ timers > 0
    /\ NextSocketId <= MaxSockets
    /\ timers' = timers - 1
    /\ socket' = initializeSocket(ioSockets).socket
    /\ ioSockets' = initializeSocket(ioSockets).ioSockets
    /\ wire' = <<>>
    /\ called' = {}
    /\ browserConsole' = initializeSocket(ioSockets).log
    /\ UNCHANGED <<isConnected, reconnectAttempts, eventListeners, relayVars, storageVars>>

\* socketService.login(userId, type): this.emit('login', { userId, type })
login ==
    LET e == emit("login", socket, isConnected, ioSockets)
    IN  /\ CanEmit(socket, isConnected, ioSockets)
        /\ socket' = e.socket
        /\ ioSockets' = e.ioSockets
        /\ wire' = e.wire
        /\ browserConsole' = e.log
        /\ called' = {}
        /\ UNCHANGED <<isConnected, reconnectAttempts, eventListeners, timers,
                       relayVars, storageVars>>

\* socketService.on(event, callback): the callback is registered on the
\* socket object held now (this.socket is never null after the constructor)
on(event) ==
    /\ ioSockets' = [ioSockets EXCEPT ![socket].listeners = @ \cup {event}]
    /\ eventListeners' = eventListeners \cup {event}
    /\ browserConsole' = << <<"Listener adicionado para:", event>> >>
    /\ wire' = <<>>
    /\ called' = {}
    /\ UNCHANGED <<socket, isConnected, reconnectAttempts, timers, relayVars, storageVars>>

\* a packet of the server arrives on the connected socket object s: the
\* library calls the callbacks registered on s for the event
ReceivePacket(s, event) ==
    /\ ioSockets[s].state = "connected"
    /\ called' = (IF event \in ioSockets[s].listeners THEN {event} ELSE {})
    /\ browserConsole' = <<>>
    /\ wire' = <<>>
    /\ UNCHANGED <<socket, isConnected, reconnectAttempts, eventListeners, ioSockets,
                   timers, relayVars, storageVars>>

ClientNext ==
    \/ \E s \in SocketIds : SocketConnect(s)
    \/ \E s \in SocketIds : \E reason \in DisconnectReasons : SocketDisconnect(s, reason)
    \/ \E s \in SocketIds : SocketConnectError(s)
    \/ Timeout
    \/ login
    \/ \E event \in ListenEvents : on(event)
    \/ \E s \in SocketIds : \E event \in ListenEvents : ReceivePacket(s, event)

ClientSpec == Init /\ [][ClientNext]_vars

\* the socket objects that are connected or trying to connect
Live == {s \in SocketIds : ioSockets[s].state \in {"connecting", "connected"}}

(* C25: the reconnection of the page's SocketService is bounded.            *)
(* reconnectAttempts never exceeds maxReconnectAttempts; the handling of a  *)
(* successful connect sets it to 0; and once it has reached the maximum, a  *)
(* further connection error creates no socket object: this.socket and the   *)
(* set of socket objects stay as they are.                                  *)
C25_BoundedReconnection ==
    /\ [](reconnectAttempts <= maxReconnectAttempts)
    /\ [][ \A s \in SocketIds : SocketConnect(s) => reconnectAttempts' = 0 ]_vars
    /\ [][ \A s \in SocketIds :
             (reconnectAttempts = maxReconnectAttempts /\ SocketConnectError(s)) =>
                 /\ socket' = socket
                 /\ Created' = Created
         ]_vars

(* C26: isConnected is true only while the socket object held in            *)
(* this.socket is connected, and at most one socket object of the service   *)
(* is live (connected or connecting) at any time.                           *)
C26_OneLiveSocket ==
    /\ isConnected => ioSockets[socket].state = "connected"
    /\ Cardinality(Live) <= 1

(* C27: an event given to emit (by login, sendMessage, ...) while           *)
(* isConnected is false is never sent.  That call sends nothing and leaves  *)
(* every sendBuffer as it was; whatever goes to the server in a step was    *)
(* emitted in that step with isConnected true or comes out of the           *)
(* sendBuffer of the socket that connects; and a sendBuffer grows only by   *)
(* an emit made with isConnected true.  So a login emitted before the       *)
(* connect event never reaches the server.                                  *)
C27_NotConnectedEmitIsDropped ==
    [][ /\ (~ isConnected /\ login) =>
              /\ wire' = <<>>
              /\ \A s \in SocketIds :
                     ioSockets'[s].sendBuffer = ioSockets[s].sendBuffer
        /\ \A i \in 1..Len(wire') :
              \/ /\ ioSockets[wire'[i][1]].state = "connecting"
                 /\ ioSockets'[wire'[i][1]].state = "connected"
                 /\ \E j \in 1..Len(ioSockets[wire'[i][1]].sendBuffer) :
                        ioSockets[wire'[i][1]].sendBuffer[j] = wire'[i][2]
              \/ /\ isConnected'
                 /\ wire'[i][1] = socket
                 /\ browserConsole'[Len(browserConsole')] = <<"Evento emitido:", wire'[i][2]>>
        /\ \A s \in SocketIds :
              Len(ioSockets'[s].sendBuffer) > Len(ioSockets[s].sendBuffer) =>
                  /\ isConnected'
                  /\ s = socket
                  /\ browserConsole'[Len(browserConsole')] =
                         <<"Evento emitido:",
                           ioSockets'[s].sendBuffer[Len(ioSockets'[s].sendBuffer)]>>
      ]_vars

\* login has just been called while the service was not connected: the
\* warning is the first line logged, nothing was sent and no sendBuffer holds
\* anything
C27_Witness ==
    /\ Len(browserConsole) = 2
    /\ browserConsole[1] = <<"Socket nao conectado. Tentando reconectar...">>
    /\ ~ isConnected
    /\ wire = <<>>
    /\ \A s \in SocketIds : ioSockets[s].sendBuffer = <<>>

(* C28: the service keeps receiving after it reconnects.  Every event a     *)
(* callback was registered for with on(event, callback) has that callback   *)
(* on the socket object held in this.socket, and a packet of such an event  *)
(* that arrives on the held socket runs the callback.                       *)
C28_ListenersFollowSocket ==
    /\ [](eventListeners \subseteq ioSockets[socket].listeners)
    /\ [][ \A event \in ListenEvents :
             (ReceivePacket(socket, event) /\ event \in eventListeners) =>
                 called' = {event}
         ]_vars

(***************************************************************************)
(* StorageService of the page: values kept in localStorage with an         *)
(* optional time to live.                                                  *)
(***************************************************************************)

\* the defaultValue given to get; "null" is the default of the parameter
DefaultValues == {"null", "nenhum"}

\* the ttl given to set, in seconds
Ttls == 0..MaxTtl

\* JSON.stringify of the object set builds: the members in the order they
\* were added, expiresAt only when it was added
JSONStringify(data) ==
    <<"value", data.value, "timestamp", data.timestamp>> \o
    (IF "expiresAt" \in DOMAIN data THEN <<"expiresAt", data.expiresAt>> ELSE <<>>)

\* JSON.parse of a stored item
JSONParse(item) ==
    IF Len(item) = 6
    THEN [value |-> item[2], timestamp |-> item[4], expiresAt |-> item[6]]
    ELSE [value |-> item[2], timestamp |-> item[4]]

\* variant of Expired: the value is refused from the instant of expiry on
ExpiredAtExpiry(data, t) ==
    /\ "expiresAt" \in DOMAIN data
    /\ data.expiresAt # 0
    /\ t >= data.expiresAt

\* data.expiresAt && Date.now() > data.expiresAt
Expired(data, t) ==
    /\ "expiresAt" \in DOMAIN data
    /\ data.expiresAt # 0
    /\ t > data.expiresAt

\* localStorage.removeItem
removeItem(store, fullKey) == [store EXCEPT ![fullKey] = NoItem]

\* the orders in which Object.keys may list the keys of localStorage
KeyOrders ==
    {order \in [1..Cardinality(Keys) -> Keys] :
        \A i, j \in 1..Cardinality(Keys) : order[i] = order[j] => i = j}

\* StorageService.set
set(key, value, ttl) ==
    LET fullKey == getFullKey(key)
        data == IF ttl # 0
                THEN [value |-> value, timestamp |-> now, expiresAt |-> now + (ttl * 1000)]
                ELSE [value |-> value, timestamp |-> now]
    IN  /\ storage' = [storage EXCEPT ![fullKey] = JSONStringify(data)]
        /\ browserConsole' = << <<"Dados armazenados:", key>> >>
        /\ returned' = NoReturn
        /\ UNCHANGED <<now, socket, isConnected, reconnectAttempts, eventListeners,
                       ioSockets, timers, wire, called, relayVars>>

\* StorageService.get
get(key, defaultValue) ==
    LET fullKey == getFullKey(key)
        item == storage[fullKey]
    IN  /\ IF item = NoItem
           THEN /\ returned' = <<"get", defaultValue>>
                /\ browserConsole' = <<>>
                /\ UNCHANGED storage
           ELSE IF Expired(JSONParse(item), now)
           THEN /\ storage' = removeItem(storage, fullKey)
                /\ browserConsole' = << <<"Dados removidos:", key>> >>
                /\ returned' = <<"get", defaultValue>>
           ELSE /\ browserConsole' = << <<"Dados recuperados:", key>> >>
                /\ returned' = <<"get", JSONParse(item).value>>
                /\ UNCHANGED storage
        /\ UNCHANGED <<now, socket, isConnected, reconnectAttempts, eventListeners,
                       ioSockets, timers, wire, called, relayVars>>

\* StorageService.remove
remove(key) ==
    /\ storage' = removeItem(storage, getFullKey(key))
    /\ browserConsole' = << <<"Dados removidos:", key>> >>
    /\ returned' = NoReturn
    /\ UNCHANGED <<now, socket, isConnected, reconnectAttempts, eventListeners,
                   ioSockets, timers, wire, called, relayVars>>

\* StorageService.has
has(key) ==
    /\ returned' = <<"has", storage[getFullKey(key)] # NoItem>>
    /\ browserConsole' = <<>>
    /\ UNCHANGED <<storage, now, socket, isConnected, reconnectAttempts, eventListeners,
                   ioSockets, timers, wire, called, relayVars>>

\* StorageService.cleanupExpired
cleanupExpired ==
    \E order \in KeyOrders :
        LET IsExpired(key) ==
                /\ storage[getFullKey(key)] # NoItem
                /\ Expired(JSONParse(storage[getFullKey(key)]), now)
            cleaned == SelectSeq(order, IsExpired)
        IN  /\ storage' = [fullKey \in FullKeys |->
                             IF \E key \in Keys : fullKey = getFullKey(key) /\ IsExpired(key)
                             THEN NoItem
                             ELSE storage[fullKey]]
            /\ browserConsole' =
                   [i \in 1..Len(cleaned) |-> <<"Dados removidos:", cleaned[i]>>] \o
                   (IF Len(cleaned) > 0
                    THEN << <<"itens expirados removidos", Len(cleaned)>> >>
                    ELSE <<>>)
            /\ returned' = NoReturn
            /\ UNCHANGED <<now, socket, isConnected, reconnectAttempts, eventListeners,
                           ioSockets, timers, wire, called, relayVars>>

\* Date.now() advances
Tick ==
    /\ now < MaxTicks * TickMs
    /\ now' = now + TickMs
    /\ UNCHANGED <<storage, returned, clientVars, relayVars>>

StorageNext ==
    \/ \E key \in Keys : \E value \in Values : \E ttl \in Ttls : set(key, value, ttl)
    \/ \E key \in Keys : \E defaultValue \in DefaultValues : get(key, defaultValue)
    \/ \E key \in Keys : remove(key)
    \/ \E key \in Keys : has(key)
    \/ cleanupExpired
    \/ Tick

StorageSpec == Init /\ [][StorageNext]_vars

(* C29: StorageService never returns an expired value.  set(key, value,     *)
(* ttl) stores the value with the expiry now + ttl seconds, and with no     *)
(* expiry when ttl is falsy (0, or the default null: "stored without       *)
(* ttl"); every stored expiry lies a whole ttl after the time of storing.   *)
(* get(key, default) returns the stored value while the current time is at  *)
(* or before the expiry, and always when there is no expiry; after the      *)
(* expiry it returns the default and removes the entry, so has(key) is      *)
(* false, and stays false until the key is set again.  An entry that has    *)
(* not expired disappears only by remove(key).                              *)
C29_NeverReturnsExpired ==
    /\ [](\A fullKey \in FullKeys :
            storage[fullKey] # NoItem =>
                /\ JSONParse(storage[fullKey]).timestamp <= now
                /\ Len(storage[fullKey]) = 6 =>
                       \E ttl \in 1..MaxTtl :
                           storage[fullKey][6] = storage[fullKey][4] + ttl * 1000)
    /\ [][ \A key \in Keys : \A value \in Values : \A ttl \in Ttls :
             set(key, value, ttl) =>
                 /\ storage'[getFullKey(key)][2] = value
                 /\ IF ttl = 0
                    THEN Len(storage'[getFullKey(key)]) = 4
                    ELSE /\ Len(storage'[getFullKey(key)]) = 6
                         /\ storage'[getFullKey(key)][6] = now + ttl * 1000
         ]_vars
    /\ [][ \A key \in Keys : \A defaultValue \in DefaultValues :
             get(key, defaultValue) =>
                 IF storage[getFullKey(key)] = NoItem
                 THEN returned' = <<"get", defaultValue>>
                 ELSE IF Len(storage[getFullKey(key)]) = 6 /\ now > storage[getFullKey(key)][6]
                 THEN /\ returned' = <<"get", defaultValue>>
                      /\ storage'[getFullKey(key)] = NoItem
                 ELSE /\ returned' = <<"get", storage[getFullKey(key)][2]>>
                      /\ storage' = storage
         ]_vars
    /\ [][ \A key \in Keys :
             /\ (has(key) /\ storage[getFullKey(key)] = NoItem) =>
                    returned' = <<"has", FALSE>>
             /\ (storage[getFullKey(key)] = NoItem /\ storage'[getFullKey(key)] # NoItem) =>
                    \E value \in Values : \E ttl \in Ttls : set(key, value, ttl)
             /\ ( /\ storage[getFullKey(key)] # NoItem
                  /\ storage'[getFullKey(key)] = NoItem
                  /\ ~ (Len(storage[getFullKey(key)]) = 6 /\ now > storage[getFullKey(key)][6]) ) =>
                    remove(key)
         ]_vars

\* get has just found the entry of "user" expired: it removed the entry and
\* returned the default
C29_Witness ==
    /\ browserConsole = << <<"Dados removidos:", "user">> >>
    /\ returned[1] = "get"
    /\ storage[getFullKey("user")] = NoItem

====
